---- MODULE Spec2Model ----
(***************************************************************************)
(* StorageAdapter (src/src/storageAdapter.ts): a capacity-bounded log      *)
(* store with a debounced write buffer over an IndexedDB object store.     *)
(*                                                                         *)
(* The caller's k-th appended entry is the record {msg: k}, kept as k.     *)
(* The persistent collection `db` is a sequence in ascending auto-increment *)
(* id order; db.read() returns the stored values with their key field id.  *)
(* Every asynchronous IndexedDB request is a transaction in the FIFO `dbq`; *)
(* executing (or failing) the head transaction also runs, in the same      *)
(* event, the continuation of the task awaiting it (promise callbacks are  *)
(* microtasks and run before the next event).  Tasks are the one awaiting  *)
(* caller (slot 0) and the background flushes started by the debounce      *)
(* timer or by close() (slots 1..MaxBg).  The medium may reject a request  *)
(* (at most MaxFail times); a closed handle is reopened by the next        *)
(* request.                                                                *)
(***************************************************************************)
EXTENDS Integers, Sequences, FiniteSets, TLC

\* ---------------------------------------------------------------- bounds
MaxApp == 3
MaxBg == 1
MaxTimerFlushes == 2
MaxCalls == 2
MaxLimit == 2
MaxFail == 1
MaxVal == 2
MaxTrimLen == 3
InitMax == 1..MaxLimit
SetArgs == -1..MaxLimit
CtorArgs == -1..MaxLimit

VARIABLES
  pending,     \* this.pendingWrites
  timer,       \* number of scheduled, not yet fired debounce callbacks
  maxEntries,  \* this.maxEntries
  db,          \* the IndexedDB object store, in id order
  dbq,         \* issued, not yet executed IndexedDB requests (FIFO)
  handle,      \* the IndexedDB connection: "open" or "closed"
  tasks,       \* per task: operation, position and locals
  nApp,        \* ghost: number of append() calls so far
  clearBase,   \* ghost: nApp when clear() was last called
  limitSet,    \* ghost: setMaxLogs has changed the limit
  calls,       \* ghost: number of caller operations (bounded)
  lastCall,    \* ghost: the last caller operation issued and its argument
  fails,       \* ghost: number of rejected requests (bounded)
  closeP,      \* ghost: pendingWrites when close() was last called
  closeD,      \* ghost: the store when close() was last called with no
               \* request or task in flight (<<>> otherwise)
  closeN,      \* ghost: nApp when close() was last called (-1: never)
  ret,         \* ghost: snapshot taken when the last awaited call settled
  probeIn,     \* input of a pure operator under check (<<>> in Spec)
  probeOut     \* its output once computed (<<>>: not yet)

vars == <<pending, timer, maxEntries, db, dbq, handle, tasks, nApp,
          clearBase, limitSet, calls, lastCall, fails, closeP, closeD, closeN,
          ret, probeIn, probeOut>>

Client == 0
\* background slots: MaxBg for flushes and unawaited calls, up to
\* MaxTimerFlushes for overlapping timer flushes
BgSlots == 1..(IF MaxBg > MaxTimerFlushes THEN MaxBg ELSE MaxTimerFlushes)
Tasks == {Client} \cup BgSlots
\* owner of db.append requests whose Promise.all has already rejected
Orphan == -1

Min(a, b) == IF a < b THEN a ELSE b
Max(a, b) == IF a > b THEN a ELSE b

\* Array.prototype.slice(start) on a sequence
JsSliceFrom(s, st) ==
  LET b == IF st < 0 THEN Max(Len(s) + st, 0) ELSE Min(st, Len(s))
  IN SubSeq(s, b + 1, Len(s))

\* clearTimeout(this.writeTimer): cancels the latest callback if still scheduled
ClearTimeout(n) == IF n > 0 THEN n - 1 ELSE 0

\* a task frame: the operation, its position, the flush locals (toWrite,
\* excessCount), the argument, setMaxLogs's currentCount, whether its flush
\* failed, and ghost snapshots taken when the operation was called
IdleTask == [op |-> "none", pc |-> "idle", tw |-> <<>>, ex |-> 0,
             arg |-> 0, cnt |-> 0, ff |-> FALSE, ca |-> 0, cb |-> 0, om |-> 0,
             d0 |-> <<>>, p0 |-> <<>>, q0 |-> FALSE, ls0 |-> FALSE]

NoRet == [op |-> "none", arg |-> 0, err |-> FALSE, res |-> <<>>,
          cnt |-> 0, ff |-> FALSE, ca |-> 0, ra |-> 0, cb |-> 0, db |-> <<>>,
          max |-> 0, om |-> 0, d0 |-> <<>>, p0 |-> <<>>, q0 |-> FALSE,
          ls0 |-> FALSE]

Req(t, k, v) == [t |-> t, k |-> k, v |-> v]

\* the per-record db.append requests issued by Promise.all, in batch order
AppendReqs(t, tw) == [i \in 1..Len(tw) |-> Req(t, "append", <<tw[i]>>)]

\* the stored values as db.read() returns them: with their key field id
WithIds(d) == [i \in 1..Len(d) |-> [id |-> i, msg |-> d[i]]]

\* ({ id, ...log }) => log
StripId(e) == [f \in DOMAIN e \ {"id"} |-> e[f]]

\* result of executing request r against store d
ExecDb(r, d) ==
  CASE r.k = "append" -> Append(d, Head(r.v))
    [] r.k = "write"  -> [i \in 1..Len(r.v) |-> r.v[i].msg]
    [] r.k = "clear"  -> <<>>
    [] OTHER          -> d

ExecRes(r, d) == IF r.k = "count" THEN <<Len(d)>> ELSE WithIds(d)

\* (a.id || 0): a missing (or zero) id sorts as 0
IdOr0(e) == IF "id" \in DOMAIN e THEN e.id ELSE 0

\* the comparator (a, b) => (a.id || 0) - (b.id || 0)
IdCmp(a, b) == IdOr0(a) - IdOr0(b)

\* insertion of x into the sorted s before every element comparing greater
\* than or equal to it (mutant: not stable)
RECURSIVE InsertBeforeEq(_, _)
InsertBeforeEq(x, s) ==
  IF s = <<>> THEN <<x>>
  ELSE IF IdCmp(s[Len(s)], x) >= 0
       THEN Append(InsertBeforeEq(x, SubSeq(s, 1, Len(s) - 1)), s[Len(s)])
       ELSE Append(s, x)

RECURSIVE SortByIdUnstableFrom(_, _)
SortByIdUnstableFrom(logs, acc) ==
  IF logs = <<>> THEN acc
  ELSE SortByIdUnstableFrom(Tail(logs), InsertBeforeEq(Head(logs), acc))

SortByIdUnstable(logs) == SortByIdUnstableFrom(logs, <<>>)

\* insertion of x into the sorted s after every element comparing less than
\* or equal to it
RECURSIVE InsertAfterEq(_, _)
InsertAfterEq(x, s) ==
  IF s = <<>> THEN <<x>>
  ELSE IF IdCmp(s[Len(s)], x) > 0
       THEN Append(InsertAfterEq(x, SubSeq(s, 1, Len(s) - 1)), s[Len(s)])
       ELSE Append(s, x)

RECURSIVE SortByIdFrom(_, _)
SortByIdFrom(logs, acc) ==
  IF logs = <<>> THEN acc
  ELSE SortByIdFrom(Tail(logs), InsertAfterEq(Head(logs), acc))

\* logs.sort((a, b) => (a.id || 0) - (b.id || 0)): Array.prototype.sort is
\* stable (ECMAScript 2019), so elements comparing equal keep their order
SortById(logs) == SortByIdFrom(logs, <<>>)

\* trimOldEntries(excessCount) after its db.read(): sort by id, slice, and
\* the records it writes back with their id removed
TrimKeep(logs, excess, max) ==
  LET sorted == SortById(logs)
      toKeep == IF excess > 0 THEN JsSliceFrom(sorted, excess)
                ELSE JsSliceFrom(sorted, -max)
  IN [i \in 1..Len(toKeep) |-> StripId(toKeep[i])]

\* getAll's logs.map(({ id, ...log }) => log), without the map (mutant)
GetAllResultRaw(logs) == logs

\* getAll's logs.map(({ id, ...log }) => log)
GetAllResult(logs) == [i \in 1..Len(logs) |-> StripId(logs[i])]

\* --------------------------------------------------------- continuations
\* a setMaxLogs that never stores the new limit (mutant)
FlushDoneNoLimit(t, tk, q) ==
  CASE tk.op \in {"flush", "close"} ->
         /\ tasks' = [tasks EXCEPT ![t] = IdleTask]
         /\ dbq' = q
         /\ UNCHANGED <<maxEntries, ret>>
    [] tk.op = "getAll" ->
         /\ tasks' = [tasks EXCEPT ![t] = [tk EXCEPT !.pc = "g_read", !.tw = <<>>]]
         /\ dbq' = Append(q, Req(t, "read", <<>>))
         /\ UNCHANGED <<maxEntries, ret>>
    [] tk.op = "count" ->
         /\ tasks' = [tasks EXCEPT ![t] = [tk EXCEPT !.pc = "c_count", !.tw = <<>>]]
         /\ dbq' = Append(q, Req(t, "count", <<>>))
         /\ UNCHANGED <<maxEntries, ret>>
    [] tk.op = "setMaxLogs" ->
         /\ tasks' = [tasks EXCEPT ![t] = [tk EXCEPT !.pc = "s_count", !.tw = <<>>]]
         /\ dbq' = Append(q, Req(t, "count", <<>>))
         /\ UNCHANGED <<maxEntries, ret>>

\* the awaiting caller of flushPendingWrites() resumes after it returned
FlushDone(t, tk, q) ==
  CASE tk.op \in {"flush", "close"} ->
         /\ tasks' = [tasks EXCEPT ![t] = IdleTask]
         /\ dbq' = q
         /\ UNCHANGED <<maxEntries, ret>>
    [] tk.op = "getAll" ->
         /\ tasks' = [tasks EXCEPT ![t] = [tk EXCEPT !.pc = "g_read", !.tw = <<>>]]
         /\ dbq' = Append(q, Req(t, "read", <<>>))
         /\ UNCHANGED <<maxEntries, ret>>
    [] tk.op = "count" ->
         /\ tasks' = [tasks EXCEPT ![t] = [tk EXCEPT !.pc = "c_count", !.tw = <<>>]]
         /\ dbq' = Append(q, Req(t, "count", <<>>))
         /\ UNCHANGED <<maxEntries, ret>>
    [] tk.op = "setMaxLogs" ->
         /\ maxEntries' = tk.arg
         /\ tasks' = [tasks EXCEPT ![t] = [tk EXCEPT !.pc = "s_count", !.tw = <<>>]]
         /\ dbq' = Append(q, Req(t, "count", <<>>))
         /\ UNCHANGED ret

\* an awaited public call settles (err: it rejects): what its caller observes
SettleAs(t, tk, res, q, d, err) ==
  /\ tasks' = [tasks EXCEPT ![t] = IdleTask]
  /\ dbq' = q
  /\ ret' = [op |-> tk.op, arg |-> tk.arg, err |-> err,
             res |-> IF tk.op \in {"getAll", "count"} THEN res ELSE <<>>,
             cnt |-> IF tk.op = "count" /\ ~err THEN res[1] ELSE tk.cnt,
             ff |-> tk.ff, ca |-> tk.ca, ra |-> nApp, cb |-> tk.cb, db |-> d,
             max |-> maxEntries, om |-> tk.om, d0 |-> tk.d0, p0 |-> tk.p0,
             q0 |-> tk.q0, ls0 |-> tk.ls0]
  /\ UNCHANGED maxEntries

Settle(t, tk, res, q, d) == SettleAs(t, tk, res, q, d, FALSE)

\* flushPendingWrites() without its early return on an empty queue
flushPendingWritesNoEmptyCheck(t, tk0, q) ==
  /\ pending' = <<>>
  /\ tasks' = [tasks EXCEPT ![t] = [tk0 EXCEPT !.pc = "f_c1", !.tw = pending]]
  /\ dbq' = Append(q, Req(t, "count", <<>>))
  /\ UNCHANGED <<maxEntries, ret>>

\* flushPendingWrites() called from task t (synchronous part up to the
\* first await); tk0 is the task's frame for the caller's operation
flushPendingWrites(t, tk0, q) ==
  IF pending = <<>>
  THEN /\ FlushDone(t, tk0, q)
       /\ UNCHANGED pending
  ELSE /\ pending' = <<>>
       /\ tasks' = [tasks EXCEPT ![t] = [tk0 EXCEPT !.pc = "f_c1", !.tw = pending]]
       /\ dbq' = Append(q, Req(t, "count", <<>>))
       /\ UNCHANGED <<maxEntries, ret>>

\* task t resumes after its awaited request(s) executed with result res
Resume(t, res, q, d) ==
  LET tk == tasks[t]
      Go(pc, reqs) == /\ tasks' = [tasks EXCEPT ![t] = [tk EXCEPT !.pc = pc]]
                      /\ dbq' = q \o reqs
                      /\ UNCHANGED <<maxEntries, ret>>
  IN
  CASE tk.pc = "f_c1" ->
         \* currentCount + toWrite.length > this.maxEntries
         IF res[1] + Len(tk.tw) > maxEntries
         THEN /\ tasks' = [tasks EXCEPT ![t] = [tk EXCEPT !.pc = "f_t1r",
                             !.ex = res[1] + Len(tk.tw) - maxEntries]]
              /\ dbq' = Append(q, Req(t, "read", <<>>))
              /\ UNCHANGED <<maxEntries, ret>>
         ELSE Go("f_ap", AppendReqs(t, tk.tw))
    [] tk.pc = "f_t1r" ->
         Go("f_t1w", <<Req(t, "write", TrimKeep(res, tk.ex, maxEntries))>>)
    [] tk.pc = "f_t1w" -> Go("f_ap", AppendReqs(t, tk.tw))
    [] tk.pc = "f_ap" -> Go("f_c2", <<Req(t, "count", <<>>)>>)
    [] tk.pc = "f_c2" ->
         IF res[1] > maxEntries THEN Go("f_t2r", <<Req(t, "read", <<>>)>>)
         ELSE FlushDone(t, tk, q)
    [] tk.pc = "f_t2r" ->
         IF Len(res) <= maxEntries THEN FlushDone(t, tk, q)
         ELSE Go("f_t2w", <<Req(t, "write", TrimKeep(res, 0, maxEntries))>>)
    [] tk.pc = "f_t2w" -> FlushDone(t, tk, q)
    [] tk.pc = "g_read" -> Settle(t, tk, GetAllResult(res), q, d)
    [] tk.pc = "c_count" -> Settle(t, tk, res, q, d)
    [] tk.pc = "s_count" ->
         IF res[1] > maxEntries
         THEN /\ tasks' = [tasks EXCEPT ![t] = [tk EXCEPT !.pc = "s_tr",
                                                         !.cnt = res[1]]]
              /\ dbq' = Append(q, Req(t, "read", <<>>))
              /\ UNCHANGED <<maxEntries, ret>>
         ELSE Settle(t, [tk EXCEPT !.cnt = res[1]], res, q, d)
    [] tk.pc = "s_tr" ->
         IF Len(res) <= maxEntries THEN Settle(t, tk, res, q, d)
         ELSE Go("s_tw", <<Req(t, "write", TrimKeep(res, 0, maxEntries))>>)
    [] tk.pc = "s_tw" -> Settle(t, tk, res, q, d)
    [] tk.pc = "cl_clear" -> Settle(t, tk, res, q, d)

\* task t resumes after its awaited request was rejected (q: the rest of
\* the queue); the flush's catch re-adds toWrite at the front of the queue
ResumeFailed(t, q) ==
  LET tk == tasks[t]
      Requeue == /\ pending' = tk.tw \o pending
                 /\ FlushDone(t, [tk EXCEPT !.ff = TRUE], q)
      Go(pc, reqs) == /\ tasks' = [tasks EXCEPT ![t] = [tk EXCEPT !.pc = pc]]
                      /\ dbq' = q \o reqs
                      /\ UNCHANGED <<maxEntries, ret, pending>>
  IN
  CASE tk.pc \in {"f_c1", "f_c2", "f_ap"} -> Requeue
    \* trimOldEntries catches its own errors and returns
    [] tk.pc \in {"f_t1r", "f_t1w"} -> Go("f_ap", AppendReqs(t, tk.tw))
    [] tk.pc \in {"f_t2r", "f_t2w"} ->
         /\ FlushDone(t, tk, q)
         /\ UNCHANGED pending
    [] tk.pc \in {"s_tr", "s_tw"} ->
         /\ Settle(t, tk, <<>>, q, db)
         /\ UNCHANGED pending
    \* getAll / count / setMaxLogs / clear reject with the request's error
    [] tk.pc \in {"g_read", "c_count", "s_count", "cl_clear"} ->
         /\ SettleAs(t, tk, <<>>, q, db, TRUE)
         /\ UNCHANGED pending

\* ---------------------------------------------------------------- actions
\* the store's fields after new StorageAdapter(key, m) for some m in Ms
InitStore(Ms) ==
  /\ pending = <<>>
  /\ timer = 0
  /\ maxEntries \in Ms
  /\ db = <<>>
  /\ dbq = <<>>
  /\ handle = "open"
  /\ tasks = [t \in Tasks |-> IdleTask]
  /\ nApp = 0
  /\ clearBase = 0
  /\ limitSet = FALSE
  /\ calls = 0
  /\ lastCall = [op |-> "none", arg |-> 0]
  /\ fails = 0
  /\ closeP = <<>>
  /\ closeD = <<>>
  /\ closeN = -1
  /\ ret = NoRet

\* the state after new StorageAdapter(key, m) for some m in Ms
InitState(Ms) ==
  /\ InitStore(Ms)
  /\ probeIn = <<>>
  /\ probeOut = <<>>

\* stores constructed with a valid limit
Init == InitState(InitMax)

\* the constructor does not validate its maxEntries argument
InitCtor == InitState(CtorArgs)

\* append without clearTimeout of the previous timer (mutant)
appendNoCancel ==
  /\ nApp < MaxApp
  /\ pending' = Append(pending, nApp + 1)
  /\ timer' = timer + 1
  /\ nApp' = nApp + 1
  /\ UNCHANGED <<probeIn, probeOut, maxEntries, db, dbq, handle, tasks, clearBase, limitSet,
                 calls, lastCall, fails, closeP, closeD, closeN, ret>>

appendUpToWhenOpen(m) ==
  /\ handle = "open"
  /\ nApp < m
  /\ pending' = Append(pending, nApp + 1)
  /\ timer' = ClearTimeout(timer) + 1
  /\ nApp' = nApp + 1
  /\ UNCHANGED <<probeIn, probeOut, maxEntries, db, dbq, handle, tasks, clearBase, limitSet,
                 calls, lastCall, fails, closeP, closeD, closeN, ret>>

\* append(entry): enqueue and (re)start the 100ms debounce timer; m caps the
\* number of entries appended in a behaviour
appendUpTo(m) ==
  /\ nApp < m
  /\ pending' = Append(pending, nApp + 1)
  /\ timer' = ClearTimeout(timer) + 1
  /\ nApp' = nApp + 1
  /\ UNCHANGED <<probeIn, probeOut, maxEntries, db, dbq, handle, tasks, clearBase, limitSet,
                 calls, lastCall, fails, closeP, closeD, closeN, ret>>

append == appendUpTo(MaxApp)

\* the lowest idle background slot (Orphan: none); slots are interchangeable
FreeSlotUpTo(m) ==
  IF \E u \in 1..m : tasks[u].pc = "idle"
  THEN CHOOSE u \in 1..m : tasks[u].pc = "idle" /\ \A v \in 1..m : tasks[v].pc = "idle" => u <= v
  ELSE Orphan

FreeSlot == FreeSlotUpTo(MaxBg)

\* variant: a callback that finds every background slot busy is consumed
\* without flushing
TimerFireUpToSkipBusy(m) ==
  /\ timer > 0
  /\ timer' = timer - 1
  /\ IF pending = <<>> \/ FreeSlotUpTo(m) = Orphan
     THEN UNCHANGED <<pending, maxEntries, dbq, tasks, ret>>
     ELSE flushPendingWrites(FreeSlotUpTo(m), [IdleTask EXCEPT !.op = "flush"], dbq)
  /\ UNCHANGED <<probeIn, probeOut, db, handle, nApp, clearBase, limitSet, calls, lastCall,
                 fails, closeP, closeD, closeN>>

\* a debounce callback fires and runs flushPendingWrites() in the background
\* (in one of the slots 1..m)
TimerFireUpTo(m) ==
  /\ timer > 0
  /\ timer' = timer - 1
  /\ IF pending = <<>>
     THEN UNCHANGED <<pending, maxEntries, dbq, tasks, ret>>
     ELSE /\ FreeSlotUpTo(m) # Orphan
          /\ flushPendingWrites(FreeSlotUpTo(m), [IdleTask EXCEPT !.op = "flush"], dbq)
  /\ UNCHANGED <<probeIn, probeOut, db, handle, nApp, clearBase, limitSet, calls, lastCall,
                 fails, closeP, closeD, closeN>>

TimerFire == TimerFireUpTo(MaxBg)

\* close()'s flushPendingWrites().finally(() => this.db.close())
HandleAfter(t) ==
  handle' = IF t \in BgSlots /\ tasks[t].op = "close" /\ tasks'[t].pc = "idle"
            THEN "closed" ELSE "open"

\* the IndexedDB request at the head of the queue executes
DbStep ==
  /\ dbq # <<>>
  /\ LET r == Head(dbq)
         q == Tail(dbq)
         d == ExecDb(r, db)
     IN /\ db' = d
        /\ IF r.t = Orphan \/ \E i \in 1..Len(q) : q[i].t = r.t
           THEN /\ dbq' = q
                /\ UNCHANGED <<tasks, maxEntries, ret>>
           ELSE Resume(r.t, ExecRes(r, db), q, d)
        /\ HandleAfter(r.t)
  /\ UNCHANGED <<probeIn, probeOut, pending, timer, nApp, clearBase, limitSet, calls, lastCall,
                 fails, closeP, closeD, closeN>>

\* the IndexedDB request at the head of the queue is rejected by the medium;
\* a rejected db.append rejects its Promise.all at once, the batch's other
\* appends still run
DbFailUpTo(m) ==
  /\ dbq # <<>>
  /\ fails < m
  /\ fails' = fails + 1
  /\ LET r == Head(dbq)
         q == Tail(dbq)
         q2 == [i \in 1..Len(q) |-> IF q[i].t = r.t
                                    THEN [q[i] EXCEPT !.t = Orphan] ELSE q[i]]
     IN /\ IF r.t = Orphan
           THEN /\ dbq' = q
                /\ UNCHANGED <<tasks, maxEntries, ret, pending>>
           ELSE ResumeFailed(r.t, IF r.k = "append" THEN q2 ELSE q)
        /\ HandleAfter(r.t)
  /\ UNCHANGED <<probeIn, probeOut, db, timer, nApp, clearBase, limitSet, calls, lastCall,
                 closeP, closeD, closeN>>

DbFail == DbFailUpTo(MaxFail)

\* the caller's frame; the setMaxLogs-only snapshots are kept for setMaxLogs
CallFrame(op, arg) ==
  IF op = "setMaxLogs"
  THEN [IdleTask EXCEPT !.op = op, !.arg = arg, !.ca = nApp, !.cb = clearBase,
          !.om = maxEntries, !.d0 = db, !.p0 = pending, !.ls0 = limitSet,
          !.q0 = dbq = <<>> /\ \A u \in BgSlots : tasks[u].pc = "idle"]
  ELSE [IdleTask EXCEPT !.op = op, !.arg = arg, !.ca = nApp, !.cb = clearBase,
          !.ls0 = limitSet]

ClientCall(op, arg) ==
  /\ tasks[Client].pc = "idle"
  /\ calls < MaxCalls
  /\ calls' = calls + 1
  /\ lastCall' = [op |-> op, arg |-> arg]

getAll ==
  /\ ClientCall("getAll", 0)
  /\ flushPendingWrites(Client, CallFrame("getAll", 0), dbq)
  /\ UNCHANGED <<probeIn, probeOut, timer, db, handle, nApp, clearBase, limitSet, fails,
                 closeP, closeD, closeN>>

count ==
  /\ ClientCall("count", 0)
  /\ flushPendingWrites(Client, CallFrame("count", 0), dbq)
  /\ UNCHANGED <<probeIn, probeOut, timer, db, handle, nApp, clearBase, limitSet, fails,
                 closeP, closeD, closeN>>

\* a setMaxLogs whose guard lets 0 through (mutant)
setMaxLogsGuard0(maxLogs) ==
  /\ ClientCall("setMaxLogs", maxLogs)
  /\ IF maxLogs < 0
     THEN /\ ret' = [NoRet EXCEPT !.op = "setMaxLogs",
                       !.arg = maxLogs, !.err = TRUE, !.ca = nApp,
                       !.ra = nApp, !.cb = clearBase, !.db = db,
                       !.max = maxEntries]
          /\ UNCHANGED <<pending, maxEntries, dbq, tasks, limitSet>>
     ELSE /\ flushPendingWrites(Client, CallFrame("setMaxLogs", maxLogs), dbq)
          /\ limitSet' = TRUE
  /\ UNCHANGED <<probeIn, probeOut, timer, db, handle, nApp, clearBase, fails, closeP, closeD,
                 closeN>>

setMaxLogs(maxLogs) ==
  /\ ClientCall("setMaxLogs", maxLogs)
  /\ IF maxLogs < 1
     THEN \* throw new Error("maxLogs must be at least 1")
          /\ ret' = [NoRet EXCEPT !.op = "setMaxLogs",
                       !.arg = maxLogs, !.err = TRUE, !.ca = nApp,
                       !.ra = nApp, !.cb = clearBase, !.db = db,
                       !.max = maxEntries]
          /\ UNCHANGED <<pending, maxEntries, dbq, tasks, limitSet>>
     ELSE /\ flushPendingWrites(Client, CallFrame("setMaxLogs", maxLogs), dbq)
          /\ limitSet' = TRUE
  /\ UNCHANGED <<probeIn, probeOut, timer, db, handle, nApp, clearBase, fails, closeP, closeD,
                 closeN>>

\* setMaxLogs(maxLogs) issued by a caller that does not await it, while an
\* awaited call may be in progress; it runs as a task of its own
setMaxLogsUnawaited(maxLogs) ==
  /\ calls < MaxCalls
  /\ calls' = calls + 1
  /\ lastCall' = [op |-> "setMaxLogs", arg |-> maxLogs]
  /\ IF maxLogs < 1
     THEN /\ ret' = [NoRet EXCEPT !.op = "setMaxLogs",
                       !.arg = maxLogs, !.err = TRUE, !.ca = nApp,
                       !.ra = nApp, !.cb = clearBase, !.db = db,
                       !.max = maxEntries]
          /\ UNCHANGED <<pending, maxEntries, dbq, tasks, limitSet>>
     ELSE /\ FreeSlot # Orphan
          /\ flushPendingWrites(FreeSlot, CallFrame("setMaxLogs", maxLogs), dbq)
          /\ limitSet' = TRUE
  /\ UNCHANGED <<probeIn, probeOut, timer, db, handle, nApp, clearBase, fails, closeP, closeD,
                 closeN>>

clear ==
  /\ ClientCall("clear", 0)
  /\ pending' = <<>>
  /\ timer' = ClearTimeout(timer)
  /\ tasks' = [tasks EXCEPT ![Client] = [CallFrame("clear", 0) EXCEPT !.pc = "cl_clear"]]
  /\ dbq' = Append(dbq, Req(Client, "clear", <<>>))
  /\ clearBase' = nApp
  /\ UNCHANGED <<probeIn, probeOut, maxEntries, db, handle, nApp, limitSet, fails, closeP,
                 closeD, closeN, ret>>

\* close() whose flush runs its body even on an empty queue
closeNoEmptyCheck ==
  /\ calls < MaxCalls
  /\ calls' = calls + 1
  /\ lastCall' = [op |-> "close", arg |-> 0]
  /\ timer' = ClearTimeout(timer)
  /\ closeP' = pending
  /\ closeD' = IF dbq = <<>> /\ \A u \in Tasks : tasks[u].pc = "idle" THEN db ELSE <<>>
  /\ closeN' = nApp
  /\ FreeSlot # Orphan
  /\ pending' = <<>>
  /\ tasks' = [tasks EXCEPT ![FreeSlot] = [IdleTask EXCEPT !.op = "close", !.pc = "f_c1", !.tw = pending]]
  /\ dbq' = Append(dbq, Req(FreeSlot, "count", <<>>))
  /\ UNCHANGED <<maxEntries, ret, handle>>
  /\ UNCHANGED <<probeIn, probeOut, db, nApp, clearBase, limitSet, fails>>

\* close(): cancel the timer, start a flush that is not awaited, and close
\* the connection once it settles
close ==
  /\ calls < MaxCalls
  /\ calls' = calls + 1
  /\ lastCall' = [op |-> "close", arg |-> 0]
  /\ timer' = ClearTimeout(timer)
  /\ closeP' = pending
  /\ closeD' = IF dbq = <<>> /\ \A u \in Tasks : tasks[u].pc = "idle" THEN db ELSE <<>>
  /\ closeN' = nApp
  /\ IF pending = <<>>
     THEN /\ handle' = "closed"
          /\ UNCHANGED <<pending, maxEntries, dbq, tasks, ret>>
     ELSE /\ FreeSlot # Orphan
          /\ flushPendingWrites(FreeSlot, [IdleTask EXCEPT !.op = "close"], dbq)
          /\ UNCHANGED handle
  /\ UNCHANGED <<probeIn, probeOut, db, nApp, clearBase, limitSet, fails>>

Next ==
  \/ append
  \/ TimerFire
  \/ DbStep
  \/ DbFail
  \/ getAll
  \/ count
  \/ \E n \in SetArgs : setMaxLogs(n)
  \/ clear
  \/ close

Spec == Init /\ [][Next]_vars

\* producers, the debounce timer and getAll() over a medium that may reject
\* one more request than in Spec
NextFlushFail ==
  \/ append
  \/ TimerFire
  \/ DbStep
  \/ DbFailUpTo(MaxFail + 1)
  \/ getAll

SpecFlushFail == Init /\ [][NextFlushFail]_vars

SpecCtor == InitCtor /\ [][Next]_vars

\* producers and debounce callbacks whose flushes may overlap
NextTimerRace ==
  \/ append
  \/ TimerFireUpTo(MaxTimerFlushes)
  \/ DbStep

SpecTimerRace == Init /\ [][NextTimerRace]_vars

\* two setMaxLogs calls that may overlap (one awaited, one not), with
\* producers and the debounce timer
NextLimitRace ==
  \/ append
  \/ TimerFire
  \/ DbStep
  \/ \E n \in SetArgs : setMaxLogs(n)
  \/ \E n \in SetArgs : setMaxLogsUnawaited(n)

SpecLimitRace == Init /\ [][NextLimitRace]_vars

\* producers and the debounce timer over a medium that may reject a request;
\* scheduled callbacks do fire and the medium recovers (issued requests
\* eventually execute), while producers may stop at any time
NextRetry ==
  \/ append
  \/ TimerFire
  \/ DbStep
  \/ DbFail

SpecRetry ==
  /\ Init
  /\ [][NextRetry]_vars
  /\ WF_vars(TimerFire)
  /\ WF_vars(DbStep)

\* appends, clear() and getAll() racing the debounced flush, with one entry
\* more than Spec
NextOrder ==
  \/ appendUpTo(MaxApp + 1)
  \/ TimerFire
  \/ DbStep
  \/ getAll
  \/ clear

SpecOrder == Init /\ [][NextOrder]_vars

TypeOK ==
  /\ maxEntries \in Int
  /\ timer \in Nat
  /\ handle \in {"open", "closed"}

\* ------------------------------------------------------------- helpers
\* the records a+1, ..., b in append order
RecSeq(a, b) == [i \in 1..Max(b - a, 0) |-> a + i]

Range(s) == {s[i] : i \in 1..Len(s)}

IsSuffix(s, u) == Len(s) <= Len(u) /\ s = SubSeq(u, Len(u) - Len(s) + 1, Len(u))

Increasing(s) == \A i, j \in 1..Len(s) : i < j => s[i] < s[j]

\* the caller records returned by getAll, as record numbers
Msgs(s) == [i \in 1..Len(s) |-> s[i].msg]

\* nothing buffered, scheduled or in flight
Quiescent ==
  /\ pending = <<>>
  /\ timer = 0
  /\ dbq = <<>>
  /\ \A t \in Tasks : tasks[t].pc = "idle"

\* a read-style call (getAll, count, setMaxLogs) has settled normally
ReadSettled == ret.op \in {"getAll", "count", "setMaxLogs"} /\ ~ret.err

\* The counterexamples of C1-C5, C8, C10, C11, C12 and C14 are stated
\* over a medium that has rejected nothing (fails = 0): they are races.

\* C1: whenever getAll, count or setMaxLogs returns to its caller, the
\* persistent collection holds at most maxEntries records.
CapacityInvariant == (ReadSettled /\ fails = 0) => Len(ret.db) <= ret.max

\* C2: with a fixed limit n, starting empty and never cleared, once m appends
\* have been flushed (nothing buffered or in flight) the store holds exactly
\* the last min(n, m) appended records in append order.
MostRecentKept ==
  (Quiescent /\ ~limitSet /\ clearBase = 0 /\ fails = 0)
    => db = RecSeq(nApp - Min(maxEntries, nApp), nApp)

\* C3: for a store used without clear (and without appends during the call),
\* count() returns min(n, total records appended) for the current limit n.
ExactCount ==
  (ret.op = "count" /\ ~ret.err /\ ret.cb = 0 /\ ret.ra = ret.ca /\ fails = 0)
    => ret.cnt = Min(ret.max, ret.ca)

\* C4: getAll returns every record appended before it was called, except the
\* oldest ones evicted by the limit (the limit never changed, no appends
\* during the call).
FlushBeforeRead ==
  (ret.op = "getAll" /\ ~ret.err /\ ~ret.ls0 /\ ret.ra = ret.ca /\ fails = 0)
    => \A r \in (Max(ret.cb, ret.ca - ret.max) + 1)..ret.ca : r \in Range(Msgs(ret.res))

\* C5: getAll returns the records in the relative order they were appended.
OrderingPreserved ==
  (ret.op = "getAll" /\ ~ret.err /\ fails = 0) => Increasing(Msgs(ret.res))

\* C6: setMaxLogs(n) with n < 1 rejects with 'maxLogs must be at least 1' and
\* changes neither the limit, the stored records, the pending queue, the
\* timer nor any in-flight work (no flush is started).
LimitRejection ==
  [][(calls' = calls + 1 /\ lastCall'.op = "setMaxLogs" /\ lastCall'.arg < 1)
       => /\ ret'.err /\ ret'.op = "setMaxLogs" /\ ret'.arg = lastCall'.arg
          /\ UNCHANGED <<maxEntries, db, pending, timer, dbq, handle, tasks>>]_vars

LimitRejectionWitness == ret.err /\ ret.arg < 1 /\ Len(db) > 0 /\ pending # <<>>

\* C7: maxEntries >= 1 in every reachable state, from construction on.
MaxEntriesPositive == maxEntries >= 1

\* C8: when setMaxLogs(n), n >= 1, settles: getMaxLogs() = n, the store holds
\* at most n records, and they are the most recent records appended before
\* the call, in append order (no appends during the call, limit not changed
\* before, so nothing was evicted under another limit).
SetMaxLogsTrims ==
  (ret.op = "setMaxLogs" /\ ~ret.err /\ ret.ra = ret.ca /\ ~ret.ls0
   /\ ret.cb = 0 /\ fails = 0)
    => /\ ret.max = ret.arg
       /\ Len(ret.db) <= ret.arg
       /\ IsSuffix(ret.db, RecSeq(ret.cb, ret.ca))

\* C9: setMaxLogs(n) with n at least the durable count (here: nothing else in
\* flight at the call, no appends during it, and the flush needing no
\* eviction) leaves the stored records unchanged apart from the flushed
\* pending records, and sets the limit to n.
SetMaxLogsFrame ==
  (/\ ret.op = "setMaxLogs" /\ ~ret.err /\ ret.q0 /\ ret.ra = ret.ca
   /\ ret.arg >= Len(ret.d0) + Len(ret.p0)
   /\ ret.om >= Len(ret.d0) + Len(ret.p0))
    => /\ ~ret.ff => ret.db = ret.d0 \o ret.p0
       /\ ret.ff => /\ SubSeq(ret.db, 1, Len(ret.d0)) = ret.d0
                    /\ \A i \in (Len(ret.d0) + 1)..Len(ret.db) : ret.db[i] \in Range(ret.p0)
       /\ ret.max = ret.arg

SetMaxLogsFrameWitness ==
  /\ ret.op = "setMaxLogs" /\ ~ret.err /\ ret.q0 /\ ret.ra = ret.ca
  /\ Len(ret.d0) > 0 /\ Len(ret.p0) > 0
  /\ ret.arg >= Len(ret.d0) + Len(ret.p0) /\ ret.om >= Len(ret.d0) + Len(ret.p0)

\* C10: when setMaxLogs(n) settles, every record appended before the call is
\* durable, except the oldest ones evicted by the new limit (limit not
\* changed before, no appends during the call).
SetMaxLogsNoLoss ==
  (ret.op = "setMaxLogs" /\ ~ret.err /\ ~ret.ls0 /\ ret.ra = ret.ca /\ fails = 0)
    => \A r \in (Max(ret.cb, ret.ca - Min(ret.arg, ret.om)) + 1)..ret.ca :
          r \in Range(ret.db)

\* C11: once clear() has settled, and no append followed, the store is empty
\* (count() is 0) in every later state, also with a flush in flight.
ClearEmpties ==
  (ret.op = "clear" /\ ~ret.err /\ nApp = ret.ca /\ fails = 0) => db = <<>>

\* C12: no record appended before clear() ever appears in a getAll called
\* after clear() settled.
ClearNoResurrect ==
  (ret.op = "getAll" /\ ~ret.err /\ fails = 0)
    => \A r \in Range(Msgs(ret.res)) : r > ret.cb

\* C13: debounce. Each append cancels the armed timer and arms a new one, so
\* at most one timer is ever armed; when it fires it is the only one, and its
\* flush takes every record appended since the last flush as one batch,
\* leaving no timer and nothing pending.
DebounceSingleFlush ==
  [][(timer' = timer - 1 /\ calls' = calls)
       => /\ timer' = 0
          /\ pending' = <<>>
          /\ pending # <<>> => \E u \in BgSlots : tasks'[u].op = "flush" /\ tasks'[u].tw = pending]_vars

\* a burst of at least two appends being written by one timer flush
DebounceSingleFlushWitness ==
  /\ timer = 0
  /\ pending = <<>>
  /\ \E u \in BgSlots : tasks[u].op = "flush" /\ tasks[u].pc = "f_c1" /\ Len(tasks[u].tw) >= 2

\* C14: close() flushes the pending records before releasing the handle: once
\* all work has settled after a close() (no append or call after it), every
\* record pending at the close is durable, so a store reopened on the same key
\* returns it (when the records fit within the limit).
CloseFlushesPending ==
  (/\ Quiescent
   /\ lastCall.op = "close"
   /\ closeN = nApp
   /\ fails = 0
   /\ Len(closeP) <= maxEntries)
    => Range(closeP) \subseteq Range(db)

PendingInAppendOrder ==
  Increasing(pending)

\* C18: getAll, count and setMaxLogs never resolve after the flush they forced
\* failed (which put its batch back in the queue): such a call rejects instead
\* of returning a view that omits the requeued records.
FlushFailureRejects ==
  (ret.op \in {"getAll", "count", "setMaxLogs"} /\ ~ret.err) => ~ret.ff

\* C19: append never fails: in every state (a closed handle, failed requests,
\* flushes in flight) append can be called, and it returns after enqueueing
\* the entry, without waiting for the store and without reporting an error to
\* anyone.
AppendNeverFails ==
  /\ [](nApp < MaxApp => ENABLED append)
  /\ [][nApp' = nApp + 1
         => /\ pending' = Append(pending, nApp')
            /\ UNCHANGED <<db, dbq, tasks, ret, handle>>]_vars

\* an entry appended while the handle is released
AppendNeverFailsWitness ==
  /\ handle = "closed"
  /\ pending # <<>>

\* C20: sequence identifiers are never exposed: no record returned by getAll
\* carries the store's id field.
NoIdExposed ==
  (ret.op = "getAll" /\ ~ret.err)
    => \A i \in 1..Len(ret.res) : ~("id" \in DOMAIN ret.res[i])

\* getAll has returned stored records
NoIdExposedWitness ==
  /\ ret.op = "getAll"
  /\ ~ret.err
  /\ Len(ret.res) >= 2

\* ------------------------------------------------ caller records round trip
\* caller records: any subset of these fields, with values in 0..MaxVal
CallerFields == {"msg", "lvl", "id"}

CallerRecords ==
  UNION {[F -> 0..MaxVal] : F \in SUBSET CallerFields}

\* a record as the object store returns it from read(): the caller's fields
\* plus the "id" key path holding its sequence identifier
StoredRecord(r, key) ==
  [f \in DOMAIN r \cup {"id"} |-> IF f = "id" THEN key ELSE r[f]]

\* a store holding just the caller record r
InitRoundTrip ==
  /\ InitStore({1})
  /\ probeIn \in CallerRecords
  /\ probeOut = <<>>

\* append(r) stored it; getAll() reads it back
RoundTripDirect ==
  /\ probeOut = <<>>
  /\ probeOut' = GetAllResult(<<StoredRecord(probeIn, 1)>>)
  /\ UNCHANGED <<pending, timer, maxEntries, db, dbq, handle, tasks, nApp,
                 clearBase, limitSet, calls, lastCall, fails, closeP, closeD,
                 closeN, ret, probeIn>>

\* a trim rewrite (read, keep the last maxEntries, strip ids, write back with
\* new identifiers) happened before getAll() reads it back
RoundTripTrim ==
  /\ probeOut = <<>>
  /\ LET kept == TrimKeep(<<StoredRecord(probeIn, 1)>>, 0, 1)
     IN probeOut' = GetAllResult(<<StoredRecord(kept[1], 2)>>)
  /\ UNCHANGED <<pending, timer, maxEntries, db, dbq, handle, tasks, nApp,
                 clearBase, limitSet, calls, lastCall, fails, closeP, closeD,
                 closeN, ret, probeIn>>

NextRoundTrip == RoundTripDirect \/ RoundTripTrim

SpecRoundTrip == InitRoundTrip /\ [][NextRoundTrip]_vars

\* C21: records round-trip verbatim: the record getAll returns for a caller
\* record r has exactly r's fields and values (a caller field named id
\* included), also after a trim rewrite.
RoundTripVerbatim ==
  probeOut # <<>> => probeOut[1] = probeIn

\* C22: eviction. The pre-trim write of a flush that found C stored records
\* for a B-record batch, C + B > maxEntries, removes exactly the
\* C + B - maxEntries oldest records (all of them when that exceeds C) from
\* the store; the final trim rewrite leaves the last maxEntries records in
\* identifier order (with the limit unchanged and no rejected request).
EvictionExact ==
  [][(/\ dbq # <<>>
      /\ Head(dbq).k = "write"
      /\ Head(dbq).t \in Tasks
      /\ fails' = fails
      /\ UNCHANGED <<calls, nApp, timer>>
      /\ dbq' # dbq
      /\ fails = 0
      /\ ~limitSet)
       => LET tk == tasks[Head(dbq).t]
          IN /\ tk.pc = "f_t1w" => db' = JsSliceFrom(db, tk.ex)
             /\ tk.pc = "f_t2w" => db' = JsSliceFrom(db, -maxEntries)]_vars

\* C23: a rejected request of a call's own direct work (setMaxLogs's trim read
\* or write-replace, clear's db.clear, count's db.count) makes that call
\* reject.
OwnFailureRejects ==
  [][(/\ fails' = fails + 1
      /\ dbq # <<>>
      /\ Head(dbq).t = Client
      /\ tasks[Client].pc \in {"s_tr", "s_tw", "cl_clear", "c_count"})
       => ret'.err]_vars

\* ------------------------------------------------------ trim tie-break
\* a record read at position i, with sequence identifier v (v < 0: no id)
ReadRec(i, v) == IF v < 0 THEN [pos |-> i] ELSE [pos |-> i, id |-> v]

\* what trimOldEntries reads, and its excessCount and this.maxEntries
TrimInputs ==
  {[logs |-> [i \in 1..n |-> ReadRec(i, v[i])], ex |-> e, mx |-> m] :
     n \in 0..MaxTrimLen, v \in [1..MaxTrimLen -> -1..2], e \in 0..2,
     m \in 1..MaxLimit}

InitTrim ==
  /\ InitStore({1})
  /\ probeIn \in TrimInputs
  /\ probeOut = <<>>

\* trimOldEntries computes the records it writes back
TrimStep ==
  /\ probeOut = <<>>
  /\ probeOut' = <<TrimKeep(probeIn.logs, probeIn.ex, probeIn.mx)>>
  /\ UNCHANGED <<pending, timer, maxEntries, db, dbq, handle, tasks, nApp,
                 clearBase, limitSet, calls, lastCall, fails, closeP, closeD,
                 closeN, ret, probeIn>>

SpecTrim == InitTrim /\ [][TrimStep]_vars

\* read positions of the records the trim keeps, in write order
KeptPos == [k \in 1..Len(probeOut[1]) |-> probeOut[1][k].pos]

\* C24: tie-break in trimming: records with equal identifiers (a missing id
\* counting as 0) keep their read order, so of two tied records the trim
\* never keeps the earlier-read one while removing the later one, and writes
\* kept tied records in read order.
TieBreakReadOrder ==
  probeOut # <<>> =>
    \A i, j \in 1..Len(probeIn.logs) :
      (i < j /\ IdOr0(probeIn.logs[i]) = IdOr0(probeIn.logs[j]))
        => /\ i \in Range(KeptPos) => j \in Range(KeptPos)
           /\ \A a, b \in 1..Len(KeptPos) :
                (KeptPos[a] = i /\ KeptPos[b] = j) => a < b

\* a tie where the trim removed the earlier record and kept the later one
TieBreakReadOrderWitness ==
  /\ probeOut # <<>>
  /\ \E i, j \in 1..Len(probeIn.logs) :
       /\ i < j
       /\ IdOr0(probeIn.logs[i]) = IdOr0(probeIn.logs[j])
       /\ i \notin Range(KeptPos)
       /\ j \in Range(KeptPos)

\* C25: a flush of an empty queue is a no-op: a debounce callback firing on an
\* empty queue changes nothing but the timer, and getAll()/count() called
\* with an empty queue issue no request but their own read or count.
EmptyFlushNoop ==
  [][/\ (pending = <<>> /\ calls' = calls /\ timer' = timer - 1)
         => UNCHANGED <<db, dbq, tasks, pending, maxEntries, ret>>
     /\ (pending = <<>> /\ calls' = calls + 1 /\ lastCall'.op \in {"getAll", "count"})
         => /\ dbq' = Append(dbq, Req(Client, IF lastCall'.op = "getAll"
                                              THEN "read" ELSE "count", <<>>))
            /\ UNCHANGED <<db, pending, maxEntries>>]_vars

\* a read-forced flush drained the queue while a debounce timer is armed
EmptyFlushNoopWitness ==
  /\ ret.op = "getAll"
  /\ ~ret.err
  /\ ret.res # <<>>
  /\ pending = <<>>
  /\ timer > 0

\* C26: no duplicates: every appended record is stored at most once, also
\* after a batch whose appends partly succeeded was requeued and flushed
\* again.
NoDuplicates ==
  \A i, j \in 1..Len(db) : i # j => db[i] # db[j]

\* C27: no lost records under overlapping flushes: with no clear, no limit
\* change and no rejected request, no step removes from the store a record
\* that is among the last maxEntries appended (only the oldest are evicted).
NoLostRecords ==
  [][(fails' = 0 /\ ~limitSet' /\ clearBase' = 0)
       => \A k \in Range(db) :
            k > nApp' - maxEntries' => k \in Range(db')]_vars

\* C28: retry liveness: records put back in the queue by a failed flush
\* eventually leave it for the store, once the medium recovers, without any
\* further caller operation.
RequeuedEventuallyFlushed ==
  (fails > 0 /\ pending # <<>>) ~> (pending = <<>>)

\* C28 (amended): a failed flush schedules no retry of its own; records it put
\* back stay queued until the next flush trigger. Whenever a debounce callback
\* is scheduled (timer > 0), the queued records, requeued ones included, are
\* eventually taken out of the queue by a flush.
RequeuedFlushedOnTrigger ==
  (pending # <<>> /\ timer > 0) ~> (pending = <<>>)

\* a failed flush has put its batch back and a later append armed the timer
RequeuedFlushedOnTriggerWitness ==
  fails > 0 /\ pending # <<>> /\ timer > 0 /\ tasks[1].pc = "idle"

\* C29: last writer wins: once setMaxLogs(a) and a later setMaxLogs(b)
\* (possibly issued before the first settled) have both settled and nothing
\* is buffered or in flight, the limit is b and the store holds at most b
\* records.
LimitLastWriterWins ==
  (/\ Quiescent
   /\ calls = MaxCalls
   /\ lastCall.op = "setMaxLogs"
   /\ lastCall.arg >= 1)
    => /\ maxEntries = lastCall.arg
       /\ Len(db) <= lastCall.arg

\* C30: at most one debounce callback is scheduled at any time, and no two
\* timer-triggered flushes are ever outstanding together.
SingleTimerFlush ==
  /\ timer <= 1
  /\ Cardinality({u \in BgSlots : tasks[u].op = "flush"}) <= 1

====
